---- MODULE Spec2Model ----
(***************************************************************************)
(* Model of apps/challenges/views.py: create_challenge_using_zip_file, the *)
(* zip import of a challenge, and add_participant_team_to_challenge.       *)
(* Every import request keeps its locals in run[p];                        *)
(* the database is `store` (committed rows) plus each request's pending    *)
(* transaction run[p].txn; /tmp is the pair zip_challenge_zip / tmp_files. *)
(***************************************************************************)
EXTENDS Integers, Sequences, FiniteSets, TLC

VARIABLES
    configs,            \* ChallengeConfiguration table: sequence, index = pk
    store,              \* committed rows of the five tables of the import
    zip_challenge_zip,  \* the archive in /tmp/zip_challenge.zip, 0 = no such file
    tmp_files,          \* files below /tmp/: path -> content
    run,                \* the locals of each request being served
    participant_teams,  \* Challenge.participant_teams: pairs <<challenge pk, team pk>>
    join                \* the last call of add_participant_team_to_challenge

vars == <<configs, store, zip_challenge_zip, tmp_files, run, participant_teams, join>>

-----------------------------------------------------------------------------
(* Bounds *)

\* imports started in one behaviour
MaxRuns == 2

-----------------------------------------------------------------------------
(* Python values *)

\* a local name that no assignment has bound yet (reading it raises UnboundLocalError)
Unbound == <<"<unbound>">>

\* list[key:key+n] with a 0-based key
Slice(list, key, n) ==
    SubSeq(list, key + 1, IF key + n < Len(list) THEN key + n ELSE Len(list))

\* list[i] is defined for -len <= i < len, IndexError otherwise
IndexInRange(list, i) == i < Len(list) /\ i >= 0 - Len(list)

\* list[i], negative i counting from the end
PyIndex(list, i) == IF i >= 0 THEN list[i + 1] ELSE list[Len(list) + i + 1]

\* data = {}; for value in chunk: data.update(value)
RECURSIVE Update(_, _)
Update(data, chunk) ==
    IF chunk = <<>> THEN data
    ELSE Update(Head(chunk) @@ data, Tail(chunk))

\* name.endswith(suffix)
EndsWith(name, suffix) ==
    /\ Len(name) >= Len(suffix)
    /\ SubSeq(name, Len(name) - Len(suffix) + 1, Len(name)) = suffix

\* '/tmp/' is the root of every path of the model; "{}zip_challenge/{}".format('/tmp/', f)
ZipChallengePath(f) == <<"zip_challenge", "/">> \o f

\* os.path.isfile(path) on the files of /tmp/
IsFile(fs, path) == path # Unbound /\ path \in DOMAIN fs

-----------------------------------------------------------------------------
(* Chunk sizes of the manifest lists *)

LeaderboardChunk == 2
ChallengePhaseChunk == 11
DatasetSplitChunk == 3
ChallengePhaseSplitChunk == 4
\* yaml_file_challenge_phase_list[7] holds test_annotation_file
AnnotationIndex == 7
\* status.HTTP_200_OK, the only status the import accepts
HTTP_200 == 200

-----------------------------------------------------------------------------
(* File names: sequences of characters, so that endswith is computed *)

PngName == <<"a", ".", "p", "n", "g">>
GifName == <<"a", ".", "g", "i", "f">>
ScriptName == <<"e", ".", "p", "y">>
Ann1Name == <<"t", "1">>
Ann2Name == <<"t", "2">>
EmptyName == <<>>
ConfigYaml == ZipChallengePath(<<"c", ".", "y", "a", "m", "l">>)
OtherYml == ZipChallengePath(<<"d", ".", "y", "m", "l">>)

-----------------------------------------------------------------------------
(* Manifests: what yaml.load returns.  Every list is a list of one-key     *)
(* mappings; the import merges each chunk of them into one `data` mapping. *)

\* the value a validator rejects
Bad == "bad"
Ok == "ok"

\* one leaderboard: 2 entries
LB(schema) == << "id" :> Ok, "schema" :> schema >>

\* one challenge phase: 11 entries, the 8th is test_annotation_file
PH(name, ann) ==
    << "id" :> Ok, "name" :> name, "description" :> Ok, "leaderboard_public" :> Ok,
       "is_public" :> Ok, "start_date" :> Ok, "end_date" :> Ok,
       "test_annotation_file" :> ann, "codename" :> Ok,
       "max_submissions_per_day" :> Ok, "max_submissions" :> Ok >>

\* one dataset split: 3 entries
DS(name) == << "id" :> Ok, "name" :> name, "codename" :> Ok >>

\* one challenge phase split: 4 entries
PS(p, l, d, visibility) ==
    << "challenge_phase_id" :> p, "leaderboard_id" :> l,
       "dataset_split_id" :> d, "visibility" :> visibility >>

BaseManifest ==
    [ image |-> PngName,
      evaluation_script |-> ScriptName,
      title |-> Ok,
      leaderboard |-> LB(Ok) \o LB(Ok),
      challenge_phases |-> PH(Ok, Ann1Name) \o PH(Ok, Ann2Name),
      dataset_splits |-> DS(Ok) \o DS(Ok),
      challenge_phase_splits |-> PS(1, 2, 1, 3) \o PS(2, 1, 2, 1) ]

SmallManifest ==
    [ BaseManifest EXCEPT
      !.leaderboard = LB(Ok),
      !.challenge_phases = PH(Ok, Ann1Name),
      !.dataset_splits = DS(Ok),
      !.challenge_phase_splits = PS(1, 1, 1, 2) ]

ManifestTable ==
    << BaseManifest,                                                      \* 1
       [BaseManifest EXCEPT !.image = GifName],                           \* 2
       [BaseManifest EXCEPT !.image = EmptyName],                         \* 3
       [BaseManifest EXCEPT !.evaluation_script = EmptyName],             \* 4
       [BaseManifest EXCEPT !.title = Bad],                               \* 5
       [BaseManifest EXCEPT !.leaderboard = LB(Bad) \o LB(Ok)],           \* 6
       [BaseManifest EXCEPT !.leaderboard = LB(Bad) \o LB(Ok),
                            !.challenge_phase_splits = PS(1, 1, 1, 3)],   \* 7
       [BaseManifest EXCEPT !.challenge_phases =
                                PH(Ok, Ann1Name) \o PH(Bad, Ann2Name),
                            !.challenge_phase_splits = PS(1, 2, 1, 3)],   \* 8
       [BaseManifest EXCEPT !.dataset_splits = DS(Bad) \o DS(Ok),
                            !.challenge_phase_splits = PS(2, 1, 1, 3)],   \* 9
       [BaseManifest EXCEPT !.challenge_phase_splits =
                                PS(1, 2, 1, 3) \o PS(2, 1, 2, 0)],        \* 10
       [BaseManifest EXCEPT !.challenge_phases =
                                PH(Ok, EmptyName) \o PH(Ok, Ann2Name)],   \* 11
       [BaseManifest EXCEPT !.challenge_phases =
                                PH(Ok, Ann1Name) \o PH(Ok, EmptyName)],   \* 12
       [BaseManifest EXCEPT !.challenge_phase_splits =
                                PS(1, 1, 1, 3) \o PS(3, 1, 1, 3)],        \* 13
       [BaseManifest EXCEPT !.challenge_phase_splits =
                                PS(1, 3, 1, 3)],                          \* 14
       [BaseManifest EXCEPT !.challenge_phase_splits =
                                PS(1, 1, 3, 3)],                          \* 15
       [BaseManifest EXCEPT !.challenge_phase_splits =
                                PS(0, 1, 1, 3)],                          \* 16
       [BaseManifest EXCEPT !.challenge_phase_splits =
                                PS(1, 0 - 1, 0, 3)],                      \* 17
       [BaseManifest EXCEPT !.challenge_phase_splits =
                                PS(1, 1, 0 - 2, 3)],                      \* 18
       [BaseManifest EXCEPT !.leaderboard = LB(Ok) \o <<"id" :> Ok>>,
                            !.dataset_splits = DS(Ok) \o <<"id" :> Ok>>,
                            !.challenge_phase_splits = PS(1, 1, 1, 3)],   \* 19
       [BaseManifest EXCEPT !.leaderboard = <<>>,
                            !.challenge_phases = <<>>,
                            !.dataset_splits = <<>>,
                            !.challenge_phase_splits = <<>>],             \* 20
       [BaseManifest EXCEPT !.challenge_phase_splits =
                                PS(1, 1, 1, 3) \o <<"challenge_phase_id" :> 1>>], \* 21
       [BaseManifest EXCEPT !.challenge_phases =
                                PH(Ok, Ann1Name) \o <<"id" :> Ok, "name" :> Ok>>], \* 22
       [image |-> PngName, evaluation_script |-> ScriptName, title |-> Ok], \* 23
       SmallManifest,                                                     \* 24
       [BaseManifest EXCEPT !.challenge_phases =
                                PH(Ok, Ann1Name) \o PH(Ok, Ann2Name) \o PH(Ok, Ann1Name),
                            !.challenge_phase_splits =
                                PS(1, 2, 1, 3) \o PS(2, 1, 2, 1) \o
                                PS(3, 2, 2, 2) \o PS(3, 1, 1, 3)] >>       \* 25

-----------------------------------------------------------------------------
(* Archives: the entries of a zip file in namelist() order *)

\* an asset file of the archive, below zip_challenge/
F(name) == [name |-> ZipChallengePath(name), content |-> 0]

\* a manifest file of the archive
Y(name, m) == [name |-> name, content |-> m]

AllAssets == <<F(PngName), F(ScriptName), F(Ann1Name), F(Ann2Name)>>

\* archives 1..25: manifest i of the table with all four asset files;
\* 26..32: archives that lack files their manifest names;
\* 33: no manifest; 34, 35: two manifests
ArchiveTable ==
    [ m \in 1..Len(ManifestTable) |-> <<Y(ConfigYaml, m)>> \o AllAssets ] \o
    << <<Y(ConfigYaml, 1), F(ScriptName), F(Ann1Name), F(Ann2Name)>>,
       <<Y(ConfigYaml, 1), F(PngName), F(Ann1Name), F(Ann2Name)>>,
       <<Y(ConfigYaml, 1), F(PngName), F(ScriptName), F(Ann2Name)>>,
       <<Y(ConfigYaml, 1), F(PngName), F(ScriptName), F(Ann1Name)>>,
       <<Y(ConfigYaml, 1)>>,
       <<Y(ConfigYaml, 4), F(Ann1Name), F(Ann2Name)>>,
       <<Y(ConfigYaml, 12), F(PngName), F(ScriptName)>>,
       AllAssets,
       <<Y(ConfigYaml, 24)>> \o AllAssets \o <<Y(OtherYml, 1)>>,
       <<Y(OtherYml, 1), Y(ConfigYaml, 24)>> \o AllAssets >>

\* an archive is named by its number in the table
Archives == 1..Len(ArchiveTable)

\* the archives served while two requests run side by side
ConcurrentArchives == {1, 13, 24, 32}

\* the uploads whose fetch may fail; every other fetch answers 200
FlakyArchives == {1, 24}

-----------------------------------------------------------------------------
(* Who may import *)

Users == {"alice", "bob", "carol"}

\* ChallengeHostTeam rows: alice created one team, carol two, bob none
ChallengeHostTeams ==
    { [pk |-> 1, created_by |-> "alice"],
      [pk |-> 2, created_by |-> "carol"],
      [pk |-> 3, created_by |-> "carol"] }

\* ChallengeHostTeam.objects.get(created_by=user): the set of matches;
\* get() raises unless there is exactly one
HostTeamsCreatedBy(user) == { t \in ChallengeHostTeams : t.created_by = user }

-----------------------------------------------------------------------------
(* The validators of the serializers *)

\* serializer.is_valid() of each serializer, on the data it is given
is_valid(serializer, data) ==
    CASE serializer = "ChallengeConfiguration" -> "zip_configuration" \in DOMAIN data
      [] serializer = "ZipConfigurationChallenge" ->
            "title" \in DOMAIN data /\ data["title"] # Bad
      [] serializer = "Leaderboard" ->
            "schema" \in DOMAIN data /\ data["schema"] # Bad
      [] serializer = "ChallengePhase" ->
            "name" \in DOMAIN data /\ data["name"] # Bad
      [] serializer = "DatasetSplit" ->
            "name" \in DOMAIN data /\ data["name"] # Bad
      [] serializer = "ZipFileCreateChallengePhaseSplit" ->
            data["visibility"] \in 1..3

-----------------------------------------------------------------------------
(* Rows and file fields *)

\* a ForeignKey that is None
Null == <<>>

\* a FileField nothing was assigned to
NoFile == [uploaded |-> FALSE, name |-> <<>>, content |-> <<>>]

\* a FileField assigned a plain string: the name is stored, nothing is uploaded
NameOnly(string) == [uploaded |-> FALSE, name |-> string, content |-> <<>>]

\* SimpleUploadedFile(name, content)
SimpleUploadedFile(name, content) == [uploaded |-> TRUE, name |-> name, content |-> content]

\* (mutant) primary keys start again with every run
NewPkRestarts(cfg, ids) == <<1, Len(ids) + 1>>

\* the primary key of the next row a run creates in a table: the run's
\* configuration pk and the position among the rows the run created there
NewPk(cfg, ids) == <<cfg, Len(ids) + 1>>

EmptyTables ==
    [ challenges |-> {}, leaderboards |-> {}, phases |-> {},
      dataset_splits |-> {}, phase_splits |-> {}, config_challenge |-> {} ]

-----------------------------------------------------------------------------
(* The steps of the import, as functions of what they read.  Each returns  *)
(* exc = TRUE when the step raises, with the rows it had saved until then. *)

\* (mutant) the scan stops at the first .yaml/.yml entry
ScanNamelistFirst(namelist, yaml_file) ==
    LET matches == { i \in 1..Len(namelist) :
                        \/ EndsWith(namelist[i], <<".", "y", "a", "m", "l">>)
                        \/ EndsWith(namelist[i], <<".", "y", "m", "l">>) }
    IN  IF matches = {} THEN yaml_file
        ELSE namelist[CHOOSE i \in matches : \A j \in matches : i <= j]

\* the .yaml/.yml entry the scan of namelist() leaves in yaml_file (the last)
RECURSIVE ScanNamelist(_, _)
ScanNamelist(namelist, yaml_file) ==
    IF namelist = <<>> THEN yaml_file
    ELSE LET name == Head(namelist) IN
         ScanNamelist(Tail(namelist),
                      IF EndsWith(name, <<".", "y", "a", "m", "l">>)
                         \/ EndsWith(name, <<".", "y", "m", "l">>)
                      THEN name ELSE yaml_file)

\* challenge_image_file_path, bound only for a known image extension
ImagePath(image) ==
    IF \/ EndsWith(image, <<".", "j", "p", "g">>)
       \/ EndsWith(image, <<".", "j", "p", "e", "g">>)
       \/ EndsWith(image, <<"p", "n", "g">>)
    THEN ZipChallengePath(image) ELSE Unbound

\* challenge_evaluation_script_path, bound only for a non-empty name
EvaluationScriptPath(evaluation_script) ==
    IF Len(evaluation_script) > 0 THEN ZipChallengePath(evaluation_script) ELSE Unbound

\* the values of `image` and `evaluation_script` after the isfile test: both
\* become uploads when both files exist, both stay the manifest strings
\* otherwise; `and` reads the script path only when the image file exists
ResolveAssets(content, fs) ==
    LET challenge_image_file_path == ImagePath(content.image)
        challenge_evaluation_script_path == EvaluationScriptPath(content.evaluation_script)
        plain == [ exc |-> FALSE,
                   image |-> NameOnly(content.image),
                   evaluation_script |-> NameOnly(content.evaluation_script) ]
    IN  IF challenge_image_file_path = Unbound THEN [plain EXCEPT !.exc = TRUE]
        ELSE IF ~IsFile(fs, challenge_image_file_path) THEN plain
        ELSE IF challenge_evaluation_script_path = Unbound THEN [plain EXCEPT !.exc = TRUE]
        ELSE IF ~IsFile(fs, challenge_evaluation_script_path) THEN plain
        ELSE [ exc |-> FALSE,
               image |-> SimpleUploadedFile(challenge_image_file_path, content.image),
               evaluation_script |->
                   SimpleUploadedFile(challenge_evaluation_script_path,
                                      content.evaluation_script) ]

\* the leaderboard loop: acc = [ids, rows]
RECURSIVE LeaderboardLoop(_, _, _, _)
LeaderboardLoop(list, key, cfg, acc) ==
    IF ~(key < Len(list)) THEN acc
    ELSE LET data == Update(<<>>, Slice(list, key, LeaderboardChunk))
             pk == NewPk(cfg, acc.ids)
         IN  IF is_valid("Leaderboard", data)
             THEN LeaderboardLoop(list, key + LeaderboardChunk, cfg,
                      [ ids |-> Append(acc.ids, pk),
                        rows |-> acc.rows \cup {[pk |-> pk, key |-> key]} ])
             ELSE LeaderboardLoop(list, key + LeaderboardChunk, cfg, acc)

\* one valid phase chunk, after serializer.save(): the annotation file
\* acc = [exc, ids, rows, path]; path is test_annotation_file_path, which
\* keeps its value from one iteration to the next
AttachAnnotation(chunk, data, key, pk, challenge, fs, acc) ==
    LET saved == [ acc EXCEPT !.ids = Append(@, pk) ]
        row == [ pk |-> pk, challenge |-> challenge, key |-> key,
                 test_annotation |-> NoFile ]
        raised == [ saved EXCEPT !.exc = TRUE, !.rows = @ \cup {row} ]
    IN  IF ~(AnnotationIndex < Len(chunk)) THEN raised
        ELSE IF "test_annotation_file" \notin DOMAIN chunk[AnnotationIndex + 1] THEN raised
        ELSE LET test_annotation_file == chunk[AnnotationIndex + 1]["test_annotation_file"]
                 test_annotation_file_path ==
                     IF Len(test_annotation_file) > 0
                     THEN ZipChallengePath(test_annotation_file)
                     ELSE acc.path
             IN  IF test_annotation_file_path = Unbound THEN raised
                 ELSE [ saved EXCEPT
                        !.path = test_annotation_file_path,
                        !.rows = @ \cup
                            { IF IsFile(fs, test_annotation_file_path)
                              THEN [ row EXCEPT !.test_annotation =
                                       SimpleUploadedFile(data["test_annotation_file"],
                                                          test_annotation_file_path) ]
                              ELSE row } ]

\* the challenge phase loop
RECURSIVE ChallengePhaseLoop(_, _, _, _, _, _)
ChallengePhaseLoop(list, key, cfg, challenge, fs, acc) ==
    IF acc.exc \/ ~(key < Len(list)) THEN acc
    ELSE LET chunk == Slice(list, key, ChallengePhaseChunk)
             data == Update(<<>>, chunk)
             pk == NewPk(cfg, acc.ids)
         IN  IF challenge = Unbound THEN [acc EXCEPT !.exc = TRUE]
             ELSE IF is_valid("ChallengePhase", data)
             THEN ChallengePhaseLoop(list, key + ChallengePhaseChunk, cfg, challenge, fs,
                      AttachAnnotation(chunk, data, key, pk, challenge, fs, acc))
             ELSE ChallengePhaseLoop(list, key + ChallengePhaseChunk, cfg, challenge, fs, acc)

\* the dataset split loop: acc = [ids, rows]
RECURSIVE DatasetSplitLoop(_, _, _, _)
DatasetSplitLoop(list, key, cfg, acc) ==
    IF ~(key < Len(list)) THEN acc
    ELSE LET data == Update(<<>>, Slice(list, key, DatasetSplitChunk))
             pk == NewPk(cfg, acc.ids)
         IN  IF is_valid("DatasetSplit", data)
             THEN DatasetSplitLoop(list, key + DatasetSplitChunk, cfg,
                      [ ids |-> Append(acc.ids, pk),
                        rows |-> acc.rows \cup {[pk |-> pk, key |-> key]} ])
             ELSE DatasetSplitLoop(list, key + DatasetSplitChunk, cfg, acc)

\* (mutant) the ordinal counted from the end of the list
ResolveFromEnd(ids, ordinal) == PyIndex(ids, 0 - ordinal)

\* ids[int(ordinal)-1]: the element a 1-based ordinal selects (str() of the
\* pk and the serializer's lookup by that string give the same row back)
Resolve(ids, ordinal) == PyIndex(ids, ordinal - 1)

\* whether ids[int(ordinal)-1] raises IndexError
ResolveRaises(ids, ordinal) == ~IndexInRange(ids, ordinal - 1)

\* (mutant) the loop leaves after its first entity
ChallengePhaseSplitLoopOnce(list, key, cfg, challenge_phase_ids, leaderboard_ids, dataset_split_ids, acc) ==
    IF ~(key < Len(list)) THEN acc
    ELSE LET temp_data == Update(<<>>, Slice(list, key, ChallengePhaseSplitChunk))
             pk == NewPk(cfg, acc.ids)
         IN  IF \/ {"challenge_phase_id", "leaderboard_id", "dataset_split_id",
                    "visibility"} \ DOMAIN temp_data # {}
                \/ ResolveRaises(challenge_phase_ids, temp_data["challenge_phase_id"])
                \/ ResolveRaises(leaderboard_ids, temp_data["leaderboard_id"])
                \/ ResolveRaises(dataset_split_ids, temp_data["dataset_split_id"])
             THEN [acc EXCEPT !.exc = TRUE]
             ELSE IF ~(temp_data["visibility"] \in 1..3) THEN acc
             ELSE [ acc EXCEPT
                    !.ids = Append(@, pk),
                    !.rows = @ \cup
                        {[ pk |-> pk, key |-> key,
                           challenge_phase |->
                               Resolve(challenge_phase_ids, temp_data["challenge_phase_id"]),
                           leaderboard |->
                               Resolve(leaderboard_ids, temp_data["leaderboard_id"]),
                           dataset_split |->
                               Resolve(dataset_split_ids, temp_data["dataset_split_id"]),
                           visibility |-> temp_data["visibility"] ]} ]

\* the challenge phase split loop: acc = [exc, ids, rows]
RECURSIVE ChallengePhaseSplitLoop(_, _, _, _, _, _, _)
ChallengePhaseSplitLoop(list, key, cfg, challenge_phase_ids, leaderboard_ids, dataset_split_ids, acc) ==
    IF acc.exc \/ ~(key < Len(list)) THEN acc
    ELSE LET temp_data == Update(<<>>, Slice(list, key, ChallengePhaseSplitChunk))
             pk == NewPk(cfg, acc.ids)
         IN  IF \/ {"challenge_phase_id", "leaderboard_id", "dataset_split_id",
                    "visibility"} \ DOMAIN temp_data # {}
                \/ ResolveRaises(challenge_phase_ids, temp_data["challenge_phase_id"])
                \/ ResolveRaises(leaderboard_ids, temp_data["leaderboard_id"])
                \/ ResolveRaises(dataset_split_ids, temp_data["dataset_split_id"])
             THEN [acc EXCEPT !.exc = TRUE]
             ELSE LET data ==
                          [ challenge_phase |->
                                Resolve(challenge_phase_ids, temp_data["challenge_phase_id"]),
                            leaderboard |->
                                Resolve(leaderboard_ids, temp_data["leaderboard_id"]),
                            dataset_split |->
                                Resolve(dataset_split_ids, temp_data["dataset_split_id"]),
                            visibility |-> temp_data["visibility"] ]
                  IN  ChallengePhaseSplitLoop(list, key + ChallengePhaseSplitChunk, cfg,
                          challenge_phase_ids, leaderboard_ids, dataset_split_ids,
                          IF is_valid("ZipFileCreateChallengePhaseSplit", data)
                          THEN [ acc EXCEPT
                                 !.ids = Append(@, pk),
                                 !.rows = @ \cup
                                     {[ pk |-> pk, key |-> key,
                                        challenge_phase |-> data.challenge_phase,
                                        leaderboard |-> data.leaderboard,
                                        dataset_split |-> data.dataset_split,
                                        visibility |-> data.visibility ]} ]
                          ELSE acc)

-----------------------------------------------------------------------------
(* The database transaction and the file system *)

\* leaving `with transaction.atomic()` normally: the pending rows become visible
Commit(db, txn) ==
    [ challenges |-> db.challenges \cup txn.challenges,
      leaderboards |-> db.leaderboards \cup txn.leaderboards,
      phases |-> db.phases \cup txn.phases,
      dataset_splits |-> db.dataset_splits \cup txn.dataset_splits,
      phase_splits |-> db.phase_splits \cup txn.phase_splits ]

\* (mutant) no atomic scope: every save is committed as it is made
RollbackKeepsRows(db, txn) == Commit(db, txn)

\* leaving it by an exception: the pending rows are dropped
Rollback(db, txn) == db

\* (mutant) zip_config.save() is lost: the link is never persisted
CommitConfigsUnsaved(rows, txn) == rows

\* the ChallengeConfiguration rows after the pending zip_config.save() commits
CommitConfigs(rows, txn) ==
    [ pk \in DOMAIN rows |->
        IF \E u \in txn.config_challenge : u.pk = pk
        THEN [ rows[pk] EXCEPT !.challenge =
                 (CHOOSE u \in txn.config_challenge : u.pk = pk).challenge ]
        ELSE rows[pk] ]

\* a model instance in a boolean context
Truthy(instance) == TRUE

\* zip_ref.extractall('/tmp/'): every entry is written below /tmp/
ExtractAll(fs, archive) ==
    LET names == { archive[i].name : i \in 1..Len(archive) }
        last(name) == CHOOSE i \in 1..Len(archive) :
                          /\ archive[i].name = name
                          /\ \A j \in (i + 1)..Len(archive) : archive[j].name # name
    IN  [ path \in DOMAIN fs \cup names |->
            IF path \in names THEN archive[last(path)].content ELSE fs[path] ]

\* zip_ref.namelist()
Namelist(archive) == [ i \in 1..Len(archive) |-> archive[i].name ]

\* /tmp/zip_challenge.zip does not exist
NoZipFile == 0

-----------------------------------------------------------------------------
(* Requests *)

IdleRun ==
    [ pc |-> "idle",
      user |-> "",
      challenge_host_team |-> 0,
      uploaded_zip_file |-> 0,       \* pk of the ChallengeConfiguration, 0 = none
      status_code |-> 0,             \* response.status_code, 0 = no response
      zip_ref |-> NoZipFile,         \* the archive zipfile.ZipFile opened
      yaml_file |-> Unbound,
      yaml_file_content |-> 0,       \* number of the manifest, 0 = not read
      challenge |-> Unbound,
      leaderboard_ids |-> <<>>,
      challenge_phase_ids |-> <<>>,
      dataset_split_ids |-> <<>>,
      txn |-> EmptyTables,
      removed |-> 0,                 \* calls of os.remove
      response_status |-> 0 ]        \* status of the Response returned, 0 = none

\* the archives a request may upload
InputArchives == IF Cardinality(DOMAIN run) = 1 THEN Archives ELSE ConcurrentArchives

\* request.data: with or without the uploaded archive
RequestData ==
    { [zip_configuration |-> a] : a \in InputArchives } \cup { [other |-> 0] }

-----------------------------------------------------------------------------
(* Who takes part *)

\* ChallengeHost rows: the users of each host team
ChallengeHosts ==
    { [user |-> "alice", team_name |-> 1],
      [user |-> "carol", team_name |-> 2],
      [user |-> "carol", team_name |-> 3] }

\* pks of the ParticipantTeam rows
ParticipantTeams == {1, 2, 3, 4}

\* Participant rows: team 1 and team 2 share dave, team 3 has a user who
\* hosts, team 4 has no member
Participants ==
    { [user |-> "dave", team |-> 1],
      [user |-> "dave", team |-> 2],
      [user |-> "erin", team |-> 2],
      [user |-> "alice", team |-> 3],
      [user |-> "frank", team |-> 3] }

\* no call of add_participant_team_to_challenge was made yet
IdleJoin == [ challenge_pk |-> <<>>, participant_team_pk |-> 0, status |-> 0, error |-> "" ]

Init ==
    /\ configs = <<>>
    /\ store = Commit(EmptyTables, EmptyTables)
    /\ zip_challenge_zip = NoZipFile
    /\ tmp_files = [path \in {} |-> 0]
    /\ run = [p \in {1} |-> IdleRun]
    /\ participant_teams = {}
    /\ join = IdleJoin

InitConc ==
    /\ configs = <<>>
    /\ store = Commit(EmptyTables, EmptyTables)
    /\ zip_challenge_zip = NoZipFile
    /\ tmp_files = [path \in {} |-> 0]
    /\ run = [p \in {1, 2} |-> IdleRun]
    /\ participant_teams = {}
    /\ join = IdleJoin

\* (mutant) the exception is swallowed and the import goes on to the bind
RaiseSwallowed(p, txn) ==
    run' = [run EXCEPT ![p].pc = "bind", ![p].txn = txn]

\* the request raises inside the try block: control goes to the except clause
Raise(p, txn) ==
    run' = [run EXCEPT ![p].pc = "except", ![p].txn = txn]

\* (mutant) the lookup takes the first team instead of demanding exactly one
BeginFirstTeam(p) ==
    /\ run[p].pc \in {"idle", "returned"}
    /\ Len(configs) < MaxRuns
    /\ \E user \in Users, data \in RequestData :
         LET teams == HostTeamsCreatedBy(user) IN
         IF teams = {} \/ ~is_valid("ChallengeConfiguration", data)
         THEN /\ run' = [run EXCEPT ![p] =
                    [IdleRun EXCEPT !.pc = "returned", !.user = user,
                                    !.response_status = 400]]
              /\ UNCHANGED configs
         ELSE /\ configs' = Append(configs,
                    [ zip_configuration |-> data.zip_configuration,
                      user |-> user, challenge |-> Null ])
              /\ run' = [run EXCEPT ![p] =
                    [IdleRun EXCEPT !.pc = "download", !.user = user,
                                    !.challenge_host_team = (CHOOSE t \in teams : TRUE).pk,
                                    !.uploaded_zip_file = Len(configs) + 1]]
    /\ UNCHANGED <<store, zip_challenge_zip, tmp_files>>

\* lines 366-385: the host team of the user and the ChallengeConfiguration row
Begin(p) ==
    /\ run[p].pc \in {"idle", "returned"}
    /\ Len(configs) < MaxRuns
    /\ \E user \in Users, data \in RequestData :
         LET teams == HostTeamsCreatedBy(user) IN
         IF Cardinality(teams) # 1
         THEN /\ run' = [run EXCEPT ![p] =
                    [IdleRun EXCEPT !.pc = "returned", !.user = user,
                                    !.response_status = 400]]
              /\ UNCHANGED configs
         ELSE IF ~is_valid("ChallengeConfiguration", data)
         THEN /\ run' = [run EXCEPT ![p] =
                    [IdleRun EXCEPT !.pc = "returned", !.user = user,
                                    !.challenge_host_team = (CHOOSE t \in teams : TRUE).pk,
                                    !.response_status = 400]]
              /\ UNCHANGED configs
         ELSE /\ configs' = Append(configs,
                    [ zip_configuration |-> data.zip_configuration,
                      user |-> user, challenge |-> Null ])
              /\ run' = [run EXCEPT ![p] =
                    [IdleRun EXCEPT !.pc = "download", !.user = user,
                                    !.challenge_host_team = (CHOOSE t \in teams : TRUE).pk,
                                    !.uploaded_zip_file = Len(configs) + 1]]
    /\ UNCHANGED <<store, zip_challenge_zip, tmp_files>>

\* what requests.get may do for an upload: answer with a status, or raise (0)
FetchOutcomes(archive) ==
    IF archive \in FlakyArchives THEN {HTTP_200, 404, 0} ELSE {HTTP_200}

\* (mutant) the status of the response is not looked at: whatever archive
\* lies at /tmp/zip_challenge.zip is imported
DownloadIgnoresStatus(p) ==
    /\ run[p].pc = "download"
    /\ LET upload == configs[run[p].uploaded_zip_file].zip_configuration IN
       \E status_code \in FetchOutcomes(upload) :
            IF status_code = 0
            THEN Raise(p, run[p].txn) /\ UNCHANGED zip_challenge_zip
            ELSE /\ zip_challenge_zip' =
                        IF status_code = HTTP_200 THEN upload ELSE zip_challenge_zip
                 /\ run' = [run EXCEPT ![p].pc = "extract",
                                       ![p].status_code = status_code]
    /\ UNCHANGED <<configs, store, tmp_files>>

\* lines 386-394: fetch the archive and write it to /tmp/zip_challenge.zip
Download(p) ==
    /\ run[p].pc = "download"
    /\ LET upload == configs[run[p].uploaded_zip_file].zip_configuration IN
       \E status_code \in FetchOutcomes(upload) :
            IF status_code = 0
            THEN Raise(p, run[p].txn) /\ UNCHANGED zip_challenge_zip
            ELSE IF status_code = HTTP_200
            THEN /\ zip_challenge_zip' = upload
                 /\ run' = [run EXCEPT ![p].pc = "extract",
                                       ![p].status_code = status_code]
            ELSE /\ run' = [run EXCEPT ![p].pc = "bind",
                                       ![p].status_code = status_code]
                 /\ UNCHANGED zip_challenge_zip
    /\ UNCHANGED <<configs, store, tmp_files>>

\* lines 396-399: open /tmp/zip_challenge.zip and extract it below /tmp/
Extract(p) ==
    /\ run[p].pc = "extract"
    /\ IF zip_challenge_zip = NoZipFile
       THEN Raise(p, run[p].txn) /\ UNCHANGED tmp_files
       ELSE /\ tmp_files' = ExtractAll(tmp_files, ArchiveTable[zip_challenge_zip])
            /\ run' = [run EXCEPT ![p].pc = "manifest",
                                  ![p].zip_ref = zip_challenge_zip]
    /\ UNCHANGED <<configs, store, zip_challenge_zip>>

\* (mutant) without a manifest entry, a manifest found on disk is loaded
ReadManifestFromDisk(p) ==
    /\ run[p].pc = "manifest"
    /\ LET scanned == ScanNamelist(Namelist(ArchiveTable[run[p].zip_ref]), Unbound)
           yaml_file == IF scanned = Unbound /\ IsFile(tmp_files, ConfigYaml)
                        THEN ConfigYaml ELSE scanned
       IN  IF yaml_file = Unbound
           THEN Raise(p, run[p].txn)
           ELSE run' = [run EXCEPT ![p].pc = "challenge",
                                   ![p].yaml_file = yaml_file,
                                   ![p].yaml_file_content = tmp_files[yaml_file]]
    /\ UNCHANGED <<configs, store, zip_challenge_zip, tmp_files>>

\* lines 401-407: pick the manifest among the entries and load it
ReadManifest(p) ==
    /\ run[p].pc = "manifest"
    /\ LET yaml_file == ScanNamelist(Namelist(ArchiveTable[run[p].zip_ref]), Unbound) IN
       IF yaml_file = Unbound
       THEN Raise(p, run[p].txn)
       ELSE run' = [run EXCEPT ![p].pc = "challenge",
                               ![p].yaml_file = yaml_file,
                               ![p].yaml_file_content = tmp_files[yaml_file]]
    /\ UNCHANGED <<configs, store, zip_challenge_zip, tmp_files>>

\* the manifest a request has loaded
Content(p) == ManifestTable[run[p].yaml_file_content]

\* (mutant) the Challenge is saved outside the atomic block: visible at once
CreateChallengeAutocommit(p) ==
    /\ run[p].pc = "challenge"
    /\ LET content == Content(p)
           assets == ResolveAssets(content, tmp_files)
           pk == NewPk(run[p].uploaded_zip_file, <<>>)
       IN  IF assets.exc
           THEN Raise(p, run[p].txn) /\ UNCHANGED store
           ELSE IF is_valid("ZipConfigurationChallenge", content)
           THEN /\ run' = [run EXCEPT ![p].pc = "leaderboards", ![p].challenge = pk]
                /\ store' = [store EXCEPT !.challenges = @ \cup
                        {[ pk |-> pk, creator |-> run[p].challenge_host_team,
                           image |-> assets.image,
                           evaluation_script |-> assets.evaluation_script ]}]
           ELSE run' = [run EXCEPT ![p].pc = "leaderboards"] /\ UNCHANGED store
    /\ UNCHANGED <<configs, zip_challenge_zip, tmp_files>>

\* lines 409-435: resolve image and script, create the Challenge
CreateChallenge(p) ==
    /\ run[p].pc = "challenge"
    /\ LET content == Content(p)
           assets == ResolveAssets(content, tmp_files)
           pk == NewPk(run[p].uploaded_zip_file, <<>>)
       IN  IF assets.exc
           THEN Raise(p, run[p].txn)
           ELSE IF is_valid("ZipConfigurationChallenge", content)
           THEN run' = [run EXCEPT
                    ![p].pc = "leaderboards",
                    ![p].challenge = pk,
                    ![p].txn.challenges = @ \cup
                        {[ pk |-> pk, creator |-> run[p].challenge_host_team,
                           image |-> assets.image,
                           evaluation_script |-> assets.evaluation_script ]}]
           ELSE run' = [run EXCEPT ![p].pc = "leaderboards"]
    /\ UNCHANGED <<configs, store, zip_challenge_zip, tmp_files>>

\* lines 437-449
CreateLeaderboards(p) ==
    /\ run[p].pc = "leaderboards"
    /\ IF "leaderboard" \notin DOMAIN Content(p)
       THEN Raise(p, run[p].txn)
       ELSE LET done == LeaderboardLoop(Content(p).leaderboard, 0,
                            run[p].uploaded_zip_file, [ids |-> <<>>, rows |-> {}])
            IN  run' = [run EXCEPT ![p].pc = "phases",
                                   ![p].leaderboard_ids = done.ids,
                                   ![p].txn.leaderboards = done.rows]
    /\ UNCHANGED <<configs, store, zip_challenge_zip, tmp_files>>

\* lines 453-476
CreateChallengePhases(p) ==
    /\ run[p].pc = "phases"
    /\ IF "challenge_phases" \notin DOMAIN Content(p)
       THEN Raise(p, run[p].txn)
       ELSE LET done == ChallengePhaseLoop(Content(p).challenge_phases, 0,
                            run[p].uploaded_zip_file, run[p].challenge, tmp_files,
                            [exc |-> FALSE, ids |-> <<>>, rows |-> {}, path |-> Unbound])
            IN  IF done.exc
                THEN Raise(p, [run[p].txn EXCEPT !.phases = done.rows])
                ELSE run' = [run EXCEPT ![p].pc = "dataset_splits",
                                        ![p].challenge_phase_ids = done.ids,
                                        ![p].txn.phases = done.rows]
    /\ UNCHANGED <<configs, store, zip_challenge_zip, tmp_files>>

\* (mutant) the dataset splits are saved outside the atomic block
CreateDatasetSplitsAutocommit(p) ==
    /\ run[p].pc = "dataset_splits"
    /\ IF "dataset_splits" \notin DOMAIN Content(p)
       THEN Raise(p, run[p].txn) /\ UNCHANGED store
       ELSE LET done == DatasetSplitLoop(Content(p).dataset_splits, 0,
                            run[p].uploaded_zip_file, [ids |-> <<>>, rows |-> {}])
            IN  /\ run' = [run EXCEPT ![p].pc = "phase_splits",
                                      ![p].dataset_split_ids = done.ids]
                /\ store' = [store EXCEPT !.dataset_splits = @ \cup done.rows]
    /\ UNCHANGED <<configs, zip_challenge_zip, tmp_files>>

\* lines 480-493
CreateDatasetSplits(p) ==
    /\ run[p].pc = "dataset_splits"
    /\ IF "dataset_splits" \notin DOMAIN Content(p)
       THEN Raise(p, run[p].txn)
       ELSE LET done == DatasetSplitLoop(Content(p).dataset_splits, 0,
                            run[p].uploaded_zip_file, [ids |-> <<>>, rows |-> {}])
            IN  run' = [run EXCEPT ![p].pc = "phase_splits",
                                   ![p].dataset_split_ids = done.ids,
                                   ![p].txn.dataset_splits = done.rows]
    /\ UNCHANGED <<configs, store, zip_challenge_zip, tmp_files>>

\* (mutant) the id lists are not emptied between imports: they still begin
\* with the ids of the first import
CreateChallengePhaseSplitsKeepsIds(p) ==
    /\ run[p].pc = "phase_splits"
    /\ IF "challenge_phase_splits" \notin DOMAIN Content(p)
       THEN Raise(p, run[p].txn)
       ELSE LET kept(table) ==
                    IF run[p].uploaded_zip_file = 1 THEN <<>>
                    ELSE [ i \in 1..Cardinality({ r \in table : r.pk[1] = 1 }) |-> <<1, i>> ]
                done == ChallengePhaseSplitLoop(Content(p).challenge_phase_splits, 0,
                            run[p].uploaded_zip_file,
                            kept(store.phases) \o run[p].challenge_phase_ids,
                            kept(store.leaderboards) \o run[p].leaderboard_ids,
                            kept(store.dataset_splits) \o run[p].dataset_split_ids,
                            [exc |-> FALSE, ids |-> <<>>, rows |-> {}])
            IN  IF done.exc
                THEN Raise(p, [run[p].txn EXCEPT !.phase_splits = done.rows])
                ELSE run' = [run EXCEPT ![p].pc = "bind",
                                        ![p].txn.phase_splits = done.rows]
    /\ UNCHANGED <<configs, store, zip_challenge_zip, tmp_files>>

\* lines 497-522
CreateChallengePhaseSplits(p) ==
    /\ run[p].pc = "phase_splits"
    /\ IF "challenge_phase_splits" \notin DOMAIN Content(p)
       THEN Raise(p, run[p].txn)
       ELSE LET done == ChallengePhaseSplitLoop(Content(p).challenge_phase_splits, 0,
                            run[p].uploaded_zip_file, run[p].challenge_phase_ids,
                            run[p].leaderboard_ids, run[p].dataset_split_ids,
                            [exc |-> FALSE, ids |-> <<>>, rows |-> {}])
            IN  IF done.exc
                THEN Raise(p, [run[p].txn EXCEPT !.phase_splits = done.rows])
                ELSE run' = [run EXCEPT ![p].pc = "bind",
                                        ![p].txn.phase_splits = done.rows]
    /\ UNCHANGED <<configs, store, zip_challenge_zip, tmp_files>>

\* lines 523-529 (and 536-540, which follow only a falsy zip_config): link the
\* configuration to the challenge, commit and return
Bind(p) ==
    /\ run[p].pc = "bind"
    /\ LET zip_config == configs[run[p].uploaded_zip_file] IN
       IF Truthy(zip_config)
       THEN IF run[p].challenge = Unbound
            THEN Raise(p, run[p].txn) /\ UNCHANGED <<configs, store, zip_challenge_zip>>
            ELSE LET txn == [ run[p].txn EXCEPT !.config_challenge =
                                {[ pk |-> run[p].uploaded_zip_file,
                                   challenge |-> run[p].challenge ]} ]
                 IN  /\ store' = Commit(store, txn)
                     /\ configs' = CommitConfigs(configs, txn)
                     /\ run' = [run EXCEPT ![p].pc = "returned",
                                           ![p].txn = EmptyTables,
                                           ![p].response_status = 200]
                     /\ UNCHANGED zip_challenge_zip
       ELSE /\ store' = Commit(store, run[p].txn)
            /\ zip_challenge_zip' = NoZipFile
            /\ run' = [run EXCEPT ![p].pc = "returned",
                                  ![p].txn = EmptyTables,
                                  ![p].removed = @ + 1]
            /\ UNCHANGED configs
    /\ UNCHANGED tmp_files

\* (mutant) the failure also takes the ChallengeConfiguration row away
ExceptDropsConfiguration(p) ==
    /\ run[p].pc = "except"
    /\ store' = Rollback(store, run[p].txn)
    /\ configs' = SubSeq(configs, 1, run[p].uploaded_zip_file - 1)
    /\ run' = [run EXCEPT ![p].pc = "returned",
                          ![p].txn = EmptyTables,
                          ![p].response_status = 400]
    /\ UNCHANGED <<zip_challenge_zip, tmp_files>>

\* lines 531-534: the except clause, after the transaction rolled back
Except(p) ==
    /\ run[p].pc = "except"
    /\ store' = Rollback(store, run[p].txn)
    /\ run' = [run EXCEPT ![p].pc = "returned",
                          ![p].txn = EmptyTables,
                          ![p].response_status = 400]
    /\ UNCHANGED <<configs, zip_challenge_zip, tmp_files>>

Next ==
    \/ \E p \in DOMAIN run : Begin(p) /\ UNCHANGED <<participant_teams, join>>
    \/ \E p \in DOMAIN run : Download(p) /\ UNCHANGED <<participant_teams, join>>
    \/ \E p \in DOMAIN run : Extract(p) /\ UNCHANGED <<participant_teams, join>>
    \/ \E p \in DOMAIN run : ReadManifest(p) /\ UNCHANGED <<participant_teams, join>>
    \/ \E p \in DOMAIN run : CreateChallenge(p) /\ UNCHANGED <<participant_teams, join>>
    \/ \E p \in DOMAIN run : CreateLeaderboards(p) /\ UNCHANGED <<participant_teams, join>>
    \/ \E p \in DOMAIN run : CreateChallengePhases(p) /\ UNCHANGED <<participant_teams, join>>
    \/ \E p \in DOMAIN run : CreateDatasetSplits(p) /\ UNCHANGED <<participant_teams, join>>
    \/ \E p \in DOMAIN run : CreateChallengePhaseSplits(p) /\ UNCHANGED <<participant_teams, join>>
    \/ \E p \in DOMAIN run : Bind(p) /\ UNCHANGED <<participant_teams, join>>
    \/ \E p \in DOMAIN run : Except(p) /\ UNCHANGED <<participant_teams, join>>

\* one worker: imports one after the other
Spec == Init /\ [][Next]_vars

\* two workers: imports side by side
SpecConc == InitConc /\ [][Next]_vars

-----------------------------------------------------------------------------
(* add_participant_team_to_challenge *)

\* participants.utils.has_user_participated_in_challenge: the user belongs to
\* some participant team that takes part in the challenge
has_user_participated_in_challenge(user, challenge_pk) ==
    \E m \in Participants :
        m.user = user /\ <<challenge_pk, m.team>> \in participant_teams

\* the Response of the call: status and error text, with the request it answers
Response(challenge_pk, participant_team_pk, status, error) ==
    join' = [ challenge_pk |-> challenge_pk, participant_team_pk |-> participant_team_pk,
              status |-> status, error |-> error ]

\* (mutant) the loop over the users of the team is left out
add_participant_team_to_challenge_unchecked(challenge_pk, participant_team_pk) ==
    LET challenge == { c \in store.challenges : c.pk = challenge_pk } IN
    /\ IF challenge = {} \/ participant_team_pk \notin ParticipantTeams
       THEN /\ Response(challenge_pk, participant_team_pk, 406, "does not exist")
            /\ UNCHANGED participant_teams
       ELSE LET challenge_host_team_pk == (CHOOSE c \in challenge : TRUE).creator
                challenge_host_team_user_ids ==
                    { h.user : h \in { r \in ChallengeHosts :
                                         r.team_name = challenge_host_team_pk } }
                participant_team_user_ids ==
                    { m.user : m \in { r \in Participants : r.team = participant_team_pk } }
            IN  IF challenge_host_team_user_ids \cap participant_team_user_ids # {}
                THEN /\ Response(challenge_pk, participant_team_pk, 406, "own challenge")
                     /\ UNCHANGED participant_teams
                ELSE IF <<challenge_pk, participant_team_pk>> \in participant_teams
                THEN /\ Response(challenge_pk, participant_team_pk, 200, "Team already exists")
                     /\ UNCHANGED participant_teams
                ELSE /\ participant_teams' =
                            participant_teams \cup {<<challenge_pk, participant_team_pk>>}
                     /\ Response(challenge_pk, participant_team_pk, 201, "")
    /\ UNCHANGED <<configs, store, zip_challenge_zip, tmp_files, run>>

\* lines 126-167
add_participant_team_to_challenge(challenge_pk, participant_team_pk) ==
    LET challenge == { c \in store.challenges : c.pk = challenge_pk } IN
    /\ IF challenge = {}
       THEN /\ Response(challenge_pk, participant_team_pk, 406, "Challenge does not exist")
            /\ UNCHANGED participant_teams
       ELSE IF participant_team_pk \notin ParticipantTeams
       THEN /\ Response(challenge_pk, participant_team_pk, 406,
                        "ParticipantTeam does not exist")
            /\ UNCHANGED participant_teams
       ELSE LET challenge_host_team_pk == (CHOOSE c \in challenge : TRUE).creator
                challenge_host_team_user_ids ==
                    { h.user : h \in { r \in ChallengeHosts :
                                         r.team_name = challenge_host_team_pk } }
                participant_team_user_ids ==
                    { m.user : m \in { r \in Participants : r.team = participant_team_pk } }
            IN  IF challenge_host_team_user_ids \cap participant_team_user_ids # {}
                THEN /\ Response(challenge_pk, participant_team_pk, 406, "own challenge")
                     /\ UNCHANGED participant_teams
                ELSE IF \E user \in participant_team_user_ids :
                            has_user_participated_in_challenge(user, challenge_pk)
                THEN /\ Response(challenge_pk, participant_team_pk, 406,
                                 "already participated")
                     /\ UNCHANGED participant_teams
                ELSE IF <<challenge_pk, participant_team_pk>> \in participant_teams
                THEN /\ Response(challenge_pk, participant_team_pk, 200, "Team already exists")
                     /\ UNCHANGED participant_teams
                ELSE /\ participant_teams' =
                            participant_teams \cup {<<challenge_pk, participant_team_pk>>}
                     /\ Response(challenge_pk, participant_team_pk, 201, "")
    /\ UNCHANGED <<configs, store, zip_challenge_zip, tmp_files, run>>

\* the Challenge rows the calls meet, made by challenge_list (POST) and so
\* by no import (configuration 0): one of the host team of alice, one of a
\* host team of carol
JoinChallenges ==
    { [ pk |-> <<0, 1>>, creator |-> 1, image |-> NoFile, evaluation_script |-> NoFile ],
      [ pk |-> <<0, 2>>, creator |-> 2, image |-> NoFile, evaluation_script |-> NoFile ] }

\* the challenge pks a call may name: the two challenges and one that is unknown
JoinChallengePks == { c.pk : c \in JoinChallenges } \cup {<<0, 3>>}

\* the team pks a call may name: the teams and one that is unknown
JoinTeamPks == ParticipantTeams \cup {9}

InitJoin ==
    /\ configs = <<>>
    /\ store = Commit(EmptyTables, [EmptyTables EXCEPT !.challenges = JoinChallenges])
    /\ zip_challenge_zip = NoZipFile
    /\ tmp_files = [path \in {} |-> 0]
    /\ run = [p \in {1} |-> IdleRun]
    /\ participant_teams = {}
    /\ join = IdleJoin

NextJoin ==
    \/ \E challenge_pk \in JoinChallengePks, participant_team_pk \in JoinTeamPks :
         add_participant_team_to_challenge(challenge_pk, participant_team_pk)

\* calls of add_participant_team_to_challenge, one after the other
SpecJoin == InitJoin /\ [][NextJoin]_vars

-----------------------------------------------------------------------------
(* Vocabulary of the properties *)

\* the request has returned its Response
Returned(p) == run[p].pc = "returned"

\* the request saved its configuration and then returned the error result
Failed(p) ==
    Returned(p) /\ run[p].uploaded_zip_file # 0 /\ run[p].response_status = 400

\* the request returned the success result
Succeeded(p) == Returned(p) /\ run[p].response_status = 200

\* the request has loaded a manifest
Loaded(p) == run[p].yaml_file_content # 0

\* the rows of a table that the run of configuration cfg created
RowsOf(table, cfg) == { r \in table : r.pk[1] = cfg }

\* the run of configuration cfg has no row in any of the five tables
NoRows(db, cfg) ==
    /\ RowsOf(db.challenges, cfg) = {}
    /\ RowsOf(db.leaderboards, cfg) = {}
    /\ RowsOf(db.phases, cfg) = {}
    /\ RowsOf(db.dataset_splits, cfg) = {}
    /\ RowsOf(db.phase_splits, cfg) = {}

\* the offsets at which the chunks of n entries of a list start
ChunkKeys(list, n) == { k \in 0..(Len(list) - 1) : k % n = 0 }

\* the mapping a chunk merges into
ChunkData(list, key, n) == Update(<<>>, Slice(list, key, n))

\* number of chunks of n entries in a list, the last one possibly short
Chunks(list, n) == (Len(list) + n - 1) \div n

ListKeys == {"leaderboard", "challenge_phases", "dataset_splits", "challenge_phase_splits"}

\* the manifest has the four lists
HasLists(content) == ListKeys \subseteq DOMAIN content

\* some validator rejects the challenge or one entity of the manifest
Rejects(content) ==
    \/ ~is_valid("ZipConfigurationChallenge", content)
    \/ \E k \in ChunkKeys(content.leaderboard, LeaderboardChunk) :
         ~is_valid("Leaderboard", ChunkData(content.leaderboard, k, LeaderboardChunk))
    \/ \E k \in ChunkKeys(content.challenge_phases, ChallengePhaseChunk) :
         ~is_valid("ChallengePhase",
                   ChunkData(content.challenge_phases, k, ChallengePhaseChunk))
    \/ \E k \in ChunkKeys(content.dataset_splits, DatasetSplitChunk) :
         ~is_valid("DatasetSplit", ChunkData(content.dataset_splits, k, DatasetSplitChunk))
    \/ \E k \in ChunkKeys(content.challenge_phase_splits, ChallengePhaseSplitChunk) :
         LET data == ChunkData(content.challenge_phase_splits, k, ChallengePhaseSplitChunk)
         IN  "visibility" \in DOMAIN data
             /\ ~is_valid("ZipFileCreateChallengePhaseSplit", data)

\* the ordinals that the phase-split entity starting at offset k declares
Ordinals(content, k) ==
    LET data == ChunkData(content.challenge_phase_splits, k, ChallengePhaseSplitChunk)
    IN  [ complete |-> {"challenge_phase_id", "leaderboard_id", "dataset_split_id",
                        "visibility"} \subseteq DOMAIN data,
          data |-> data ]

\* two manifests that differ at most in the files they name
OnlyAssetsDiffer(m, b) ==
    /\ DOMAIN m = DOMAIN b
    /\ m.title = b.title
    /\ m.leaderboard = b.leaderboard
    /\ m.dataset_splits = b.dataset_splits
    /\ m.challenge_phase_splits = b.challenge_phase_splits
    /\ Len(m.challenge_phases) = Len(b.challenge_phases)
    /\ \A i \in 1..Len(m.challenge_phases) :
         \/ m.challenge_phases[i] = b.challenge_phases[i]
         \/ /\ DOMAIN m.challenge_phases[i] = {"test_annotation_file"}
            /\ DOMAIN b.challenge_phases[i] = {"test_annotation_file"}

-----------------------------------------------------------------------------
(* C1 *)

\* C1: after an import that raised inside the transaction scope has returned,
\* the store holds no Challenge, Leaderboard, ChallengePhase, DatasetSplit or
\* ChallengePhaseSplit row created by that run.
C1_Atomicity ==
    \A p \in DOMAIN run :
        Failed(p) => NoRows(store, run[p].uploaded_zip_file)

\* a run that had saved its challenge and leaderboards failed afterwards
C1_Witness ==
    \E p \in DOMAIN run :
        /\ Failed(p)
        /\ run[p].challenge # Unbound
        /\ run[p].leaderboard_ids # <<>>

-----------------------------------------------------------------------------
(* C2 *)

\* C2: an import whose manifest holds a challenge or an entity that its
\* validator rejects returns the error result and leaves no row of the run.
C2_ValidationFailureIsFatal ==
    \A p \in DOMAIN run :
        (Returned(p) /\ Loaded(p) /\ HasLists(Content(p)) /\ Rejects(Content(p)))
        => /\ run[p].response_status = 400
           /\ NoRows(store, run[p].uploaded_zip_file)

-----------------------------------------------------------------------------
(* C3 *)

\* C3: every import that saved its configuration has called os.remove on the
\* downloaded archive exactly once when it returns.
C3_CleanupRunsOnce ==
    \A p \in DOMAIN run :
        (Returned(p) /\ run[p].uploaded_zip_file # 0) => run[p].removed = 1

-----------------------------------------------------------------------------
(* C4 *)

\* C4: under any interleaving of two imports, the archive a request opens and
\* the manifest it loads are those of the archive it uploaded itself.
C4_ConcurrentImportsIsolated ==
    \A p \in DOMAIN run :
        LET own == configs[run[p].uploaded_zip_file].zip_configuration IN
        /\ run[p].zip_ref # NoZipFile => run[p].zip_ref = own
        /\ Loaded(p) =>
             \E i \in 1..Len(ArchiveTable[own]) :
                 /\ ArchiveTable[own][i].name = run[p].yaml_file
                 /\ ArchiveTable[own][i].content = run[p].yaml_file_content

-----------------------------------------------------------------------------
(* C5 *)

\* C5: an import whose manifest is the well-formed one except for the image,
\* evaluation script or annotation files it names (empty, unknown extension,
\* or absent from the archive) succeeds.
C5_MissingAssetIsNotFatal ==
    \A p \in DOMAIN run :
        (Returned(p) /\ Loaded(p) /\ OnlyAssetsDiffer(Content(p), BaseManifest))
        => run[p].response_status = 200

-----------------------------------------------------------------------------
(* C6 *)

\* the number of rows of each table that the run of a request has in the store
Created(p) ==
    LET cfg == run[p].uploaded_zip_file IN
    [ challenges |-> Cardinality(RowsOf(store.challenges, cfg)),
      leaderboards |-> Cardinality(RowsOf(store.leaderboards, cfg)),
      phases |-> Cardinality(RowsOf(store.phases, cfg)),
      dataset_splits |-> Cardinality(RowsOf(store.dataset_splits, cfg)),
      phase_splits |-> Cardinality(RowsOf(store.phase_splits, cfg)) ]

\* the import succeeded on a manifest no validator objects to
SucceededValid(p) ==
    Succeeded(p) /\ Loaded(p) /\ HasLists(Content(p)) /\ ~Rejects(Content(p))

-----------------------------------------------------------------------------
(* C7 *)

\* the row of a table with the given primary key was built from the n-th
\* chunk (of the given size) of its manifest list
IsNth(table, pk, n, size) ==
    \E r \in table : r.pk = pk /\ r.key = (n - 1) * size

\* C7: after a successful import of a valid manifest, every phase split whose
\* ordinals (p, l, d) are in range references the p-th phase, the l-th
\* leaderboard and the d-th dataset split this run created, in manifest
\* order, and carries the declared visibility.
C7_OrdinalResolution ==
    \A q \in DOMAIN run :
        SucceededValid(q) =>
            \A s \in RowsOf(store.phase_splits, run[q].uploaded_zip_file) :
                LET cfg == run[q].uploaded_zip_file
                    o == Ordinals(Content(q), s.key).data
                    p == o["challenge_phase_id"]
                    l == o["leaderboard_id"]
                    d == o["dataset_split_id"]
                IN  ( /\ p \in 1..Len(run[q].challenge_phase_ids)
                      /\ l \in 1..Len(run[q].leaderboard_ids)
                      /\ d \in 1..Len(run[q].dataset_split_ids) )
                    => /\ s.challenge_phase = <<cfg, p>>
                       /\ IsNth(store.phases, s.challenge_phase, p, ChallengePhaseChunk)
                       /\ s.leaderboard = <<cfg, l>>
                       /\ IsNth(store.leaderboards, s.leaderboard, l, LeaderboardChunk)
                       /\ s.dataset_split = <<cfg, d>>
                       /\ IsNth(store.dataset_splits, s.dataset_split, d, DatasetSplitChunk)
                       /\ s.visibility = o["visibility"]

\* a committed phase split references phase 3, leaderboard 2, dataset split 2
C7_Witness ==
    \E q \in DOMAIN run :
        /\ SucceededValid(q)
        /\ \E s \in RowsOf(store.phase_splits, run[q].uploaded_zip_file) :
             /\ s.challenge_phase[2] = 3
             /\ s.leaderboard[2] = 2
             /\ s.dataset_split[2] = 2

-----------------------------------------------------------------------------
(* C8 *)

\* some complete phase-split entity of the manifest a request loaded declares
\* an ordinal above the number of entities the run created in that list
OrdinalAboveRange(p) ==
    /\ Loaded(p)
    /\ HasLists(Content(p))
    /\ \E k \in ChunkKeys(Content(p).challenge_phase_splits, ChallengePhaseSplitChunk) :
         LET o == Ordinals(Content(p), k) IN
         /\ o.complete
         /\ \/ o.data["challenge_phase_id"] > Len(run[p].challenge_phase_ids)
            \/ o.data["leaderboard_id"] > Len(run[p].leaderboard_ids)
            \/ o.data["dataset_split_id"] > Len(run[p].dataset_split_ids)

\* C8: an import whose manifest has a phase split with an ordinal above the
\* number of entities created in the list it refers to returns the error
\* result, and no row of the run is in the store afterwards.
C8_OrdinalAboveRangeIsFatal ==
    \A p \in DOMAIN run :
        (Returned(p) /\ OrdinalAboveRange(p))
        => /\ run[p].response_status = 400
           /\ NoRows(store, run[p].uploaded_zip_file)

\* the loop raised on an ordinal above range after it had saved a phase split
C8_Witness ==
    \E p \in DOMAIN run :
        /\ run[p].pc = "except"
        /\ run[p].txn.phase_splits # {}
        /\ run[p].dataset_split_ids # <<>>
        /\ OrdinalAboveRange(p)

-----------------------------------------------------------------------------
(* C9 *)

\* some complete phase-split entity of the manifest declares an ordinal
\* that is 0 or negative
OrdinalBelowRange(p) ==
    /\ Loaded(p)
    /\ HasLists(Content(p))
    /\ \E k \in ChunkKeys(Content(p).challenge_phase_splits, ChallengePhaseSplitChunk) :
         LET o == Ordinals(Content(p), k) IN
         /\ o.complete
         /\ \/ o.data["challenge_phase_id"] < 1
            \/ o.data["leaderboard_id"] < 1
            \/ o.data["dataset_split_id"] < 1

\* C9: an import whose manifest has a phase split with an ordinal that is 0
\* or negative returns the error result and creates no phase split for it.
C9_OrdinalBelowRangeIsFatal ==
    \A p \in DOMAIN run :
        (Returned(p) /\ OrdinalBelowRange(p))
        => /\ run[p].response_status = 400
           /\ RowsOf(store.phase_splits, run[p].uploaded_zip_file) = {}

-----------------------------------------------------------------------------
(* C10 *)

\* the request is between the start of its transaction and its return
InTransaction(p) == run[p].uploaded_zip_file # 0 /\ ~Returned(p)

\* C10: the ChallengeConfiguration row of a run exists from before its
\* transaction opens and still exists after the run failed, then with a null
\* challenge; a row has a non-null challenge only if the run that created it
\* committed, and it then points at the challenge of that run.
C10_ConfigurationLifecycle ==
    /\ \A p \in DOMAIN run :
         run[p].uploaded_zip_file # 0 =>
            /\ run[p].uploaded_zip_file \in DOMAIN configs
            /\ (InTransaction(p) \/ Failed(p)) =>
                   configs[run[p].uploaded_zip_file].challenge = Null
    /\ \A cfg \in DOMAIN configs :
         configs[cfg].challenge # Null =>
            /\ \E c \in RowsOf(store.challenges, cfg) : c.pk = configs[cfg].challenge
            /\ \A p \in DOMAIN run :
                 run[p].uploaded_zip_file = cfg => Succeeded(p)

\* a run failed after it had saved its challenge, next to a linked configuration
C10_Witness ==
    \E p \in DOMAIN run :
        /\ Failed(p)
        /\ run[p].challenge # Unbound
        /\ configs[run[p].uploaded_zip_file].challenge = Null
        /\ \E cfg \in DOMAIN configs : configs[cfg].challenge # Null

-----------------------------------------------------------------------------
(* C11 *)

\* some row of the table, created by the run of cfg, was built from the chunk
\* that starts at offset k
HasRowAt(table, cfg, k) == \E r \in RowsOf(table, cfg) : r.key = k

\* every chunk of the four lists of the manifest was gone through by the run:
\* it has its row in the store, or its validator rejected it
Processed(p) ==
    LET cfg == run[p].uploaded_zip_file
        content == Content(p)
    IN  /\ \A k \in ChunkKeys(content.leaderboard, LeaderboardChunk) :
             \/ HasRowAt(store.leaderboards, cfg, k)
             \/ ~is_valid("Leaderboard", ChunkData(content.leaderboard, k, LeaderboardChunk))
        /\ \A k \in ChunkKeys(content.challenge_phases, ChallengePhaseChunk) :
             \/ HasRowAt(store.phases, cfg, k)
             \/ ~is_valid("ChallengePhase",
                          ChunkData(content.challenge_phases, k, ChallengePhaseChunk))
        /\ \A k \in ChunkKeys(content.dataset_splits, DatasetSplitChunk) :
             \/ HasRowAt(store.dataset_splits, cfg, k)
             \/ ~is_valid("DatasetSplit",
                          ChunkData(content.dataset_splits, k, DatasetSplitChunk))
        /\ \A k \in ChunkKeys(content.challenge_phase_splits, ChallengePhaseSplitChunk) :
             \/ HasRowAt(store.phase_splits, cfg, k)
             \/ LET data == ChunkData(content.challenge_phase_splits, k,
                                      ChallengePhaseSplitChunk)
                IN  /\ "visibility" \in DOMAIN data
                    /\ ~is_valid("ZipFileCreateChallengePhaseSplit", data)

\* C11: whenever an import has returned the success result, its transaction
\* has committed (nothing is pending), the Challenge this run created is in
\* the store, every chunk of the four lists was processed before the bind,
\* and the ChallengeConfiguration of this run points at that Challenge.
C11_SuccessImpliesCompleteLink ==
    \A p \in DOMAIN run :
        Succeeded(p) =>
            LET cfg == run[p].uploaded_zip_file IN
            /\ cfg \in DOMAIN configs
            /\ run[p].txn = EmptyTables
            /\ run[p].challenge # Unbound
            /\ run[p].challenge[1] = cfg
            /\ \E c \in store.challenges : c.pk = run[p].challenge
            /\ Loaded(p) /\ HasLists(Content(p)) /\ Processed(p)
            /\ configs[cfg].challenge = run[p].challenge

\* a second import succeeded with rows in all five tables, next to an
\* earlier configuration
C11_Witness ==
    \E p \in DOMAIN run :
        /\ Succeeded(p)
        /\ run[p].uploaded_zip_file = 2
        /\ RowsOf(store.phase_splits, 2) # {}
        /\ RowsOf(store.phases, 2) # {}
        /\ configs[2].challenge = <<2, 1>>

-----------------------------------------------------------------------------
(* C12 *)

\* the fetch of the request was answered with a status other than 200
TransferFailed(p) == run[p].status_code \notin {0, HTTP_200}

\* C12: once the fetch of an import was answered with a status other than
\* 200, the run never has a row, pending or committed, in any of the five
\* tables, its ChallengeConfiguration is linked to no Challenge, and the
\* result it returns is the error result.
C12_TransferFailure ==
    \A p \in DOMAIN run :
        TransferFailed(p) =>
            LET cfg == run[p].uploaded_zip_file IN
            /\ NoRows(run[p].txn, cfg)
            /\ NoRows(store, cfg)
            /\ configs[cfg].challenge = Null
            /\ Returned(p) => run[p].response_status = 400

\* an import whose fetch was answered 404 returned, while the archive of an
\* earlier import still lay at /tmp/zip_challenge.zip
C12_Witness ==
    \E p \in DOMAIN run :
        /\ TransferFailed(p)
        /\ Failed(p)
        /\ zip_challenge_zip # NoZipFile

-----------------------------------------------------------------------------
(* C13 *)

\* the user does not own exactly one host team
PreconditionFails(user) == Cardinality(HostTeamsCreatedBy(user)) # 1

\* C13: a call of the import by a user who does not own exactly one host
\* team returns the error at once: in that one step no ChallengeConfiguration
\* row is created, no transaction is opened, the archive is not fetched,
\* nothing is written to /tmp/ and no row of any table is created.
C13_PreconditionFailure ==
    [][ \A p \in DOMAIN run :
          ( /\ run[p].pc \in {"idle", "returned"}
            /\ run'[p] # run[p]
            /\ PreconditionFails(run'[p].user) )
          => /\ run'[p].pc = "returned"
             /\ run'[p].response_status = 400
             /\ run'[p].uploaded_zip_file = 0
             /\ run'[p].status_code = 0
             /\ run'[p].txn = EmptyTables
             /\ configs' = configs
             /\ store' = store
             /\ zip_challenge_zip' = zip_challenge_zip
             /\ tmp_files' = tmp_files ]_vars

\* a user with two host teams was turned away after an earlier import had
\* committed
C13_Witness ==
    \E p \in DOMAIN run :
        /\ Returned(p)
        /\ run[p].user = "carol"
        /\ run[p].response_status = 400
        /\ Len(configs) = 1
        /\ configs[1].challenge # Null

-----------------------------------------------------------------------------
(* C14 *)

\* get_challenge_by_pk: the Challenge rows that Challenge.objects.get(pk=pk)
\* finds among the committed rows; the handler answers 406 when there is none
get_challenge_by_pk(db, pk) == { c \in db.challenges : c.pk = pk }

\* get_all_challenges: Challenge.objects.filter(**q_params) over the committed
\* rows; rows carry neither `published` nor dates here, so no row is filtered
get_all_challenges(db) == db.challenges

\* challenge_phase_list (GET): the phases of a challenge, none when the
\* challenge is not found
challenge_phase_list(db, challenge_pk) ==
    IF get_challenge_by_pk(db, challenge_pk) = {} THEN {}
    ELSE { ph \in db.phases : ph.challenge = challenge_pk }

\* some reader returns the challenge, or one of the phases of the run
Observable(db, challenge_pk) ==
    \/ get_challenge_by_pk(db, challenge_pk) # {}
    \/ \E c \in get_all_challenges(db) : c.pk = challenge_pk
    \/ challenge_phase_list(db, challenge_pk) # {}
    \/ RowsOf(db.phases, challenge_pk[1]) # {}

\* C14: while an import that has created its Challenge has not returned, no
\* reader (get_challenge_by_pk, get_all_challenges, challenge_phase_list)
\* returns that Challenge or a phase of it; a Challenge becomes observable
\* only in the step in which its import commits and returns success, and in
\* that same step all the phases the import created become observable.
C14_IsolationFromReaders ==
    [][ /\ \A p \in DOMAIN run :
             (run'[p].challenge # Unbound /\ ~Returned(p)')
             => ~Observable(store', run'[p].challenge)
        /\ \A cfg \in DOMAIN configs :
             LET pk == NewPk(cfg, <<>>) IN
             /\ (~Observable(store, pk) /\ Observable(store', pk))
                => \E p \in DOMAIN run :
                     /\ run[p].uploaded_zip_file = cfg
                     /\ run[p].challenge = pk
                     /\ run[p].pc = "bind"
                     /\ Succeeded(p)'
                     /\ get_challenge_by_pk(store', pk) = run[p].txn.challenges
                     /\ challenge_phase_list(store', pk) = run[p].txn.phases
             /\ Observable(store, pk)
                => challenge_phase_list(store', pk) = challenge_phase_list(store, pk)
      ]_vars

\* an import holds its challenge and two phases uncommitted while the
\* challenge of an earlier import is served
C14_Witness ==
    \E p \in DOMAIN run :
        /\ InTransaction(p)
        /\ run[p].challenge # Unbound
        /\ Cardinality(run[p].txn.phases) = 2
        /\ get_all_challenges(store) # {}
        /\ ~Observable(store, run[p].challenge)

-----------------------------------------------------------------------------
(* C15 *)

\* the call of the import by p went past the two checks of lines 370-382
PassesChecks(p) == run[p].pc \in {"idle", "returned"} /\ run'[p].pc = "download"

\* no two rows of a table have the same primary key
PkIsKey(table) == \A r1, r2 \in table : r1.pk = r2.pk => r1 = r2

\* the rows a challenge owns through its references: its phases, the phase
\* splits of these phases, and the leaderboards and dataset splits they name
Owned(db, challenge_pk) ==
    LET phases == { ph.pk : ph \in { r \in db.phases : r.challenge = challenge_pk } }
        splits == { s \in db.phase_splits : s.challenge_phase \in phases }
    IN  [ phases |-> phases,
          phase_splits |-> { s.pk : s \in splits },
          leaderboards |-> { s.leaderboard : s \in splits },
          dataset_splits |-> { s.dataset_split : s \in splits } ]

\* two committed imports have distinct challenges that own disjoint rows
Distinct(db, cfg1, cfg2) ==
    LET c1 == configs[cfg1].challenge
        c2 == configs[cfg2].challenge
    IN  /\ c1 # c2
        /\ get_challenge_by_pk(db, c1) # {} /\ get_challenge_by_pk(db, c2) # {}
        /\ Owned(db, c1).phases \cap Owned(db, c2).phases = {}
        /\ Owned(db, c1).phase_splits \cap Owned(db, c2).phase_splits = {}
        /\ Owned(db, c1).leaderboards \cap Owned(db, c2).leaderboards = {}
        /\ Owned(db, c1).dataset_splits \cap Owned(db, c2).dataset_splits = {}

\* C15: every call of the import that passes the host-team check and the
\* validation of the configuration appends exactly one ChallengeConfiguration
\* row with a primary key no other run has, no step removes or rewrites the
\* upload of a row, and rows appear in no other way; any two committed
\* imports, also of the same archive, have distinct Challenges that own
\* disjoint phases, phase splits, leaderboards and dataset splits, and primary
\* keys are unique in every table.
C15_RetryCreatesFreshAttempt ==
    [][ /\ \A p \in DOMAIN run :
             PassesChecks(p) =>
                /\ Len(configs') = Len(configs) + 1
                /\ run'[p].uploaded_zip_file = Len(configs')
                /\ \A q \in DOMAIN run \ {p} :
                     run'[q].uploaded_zip_file # run'[p].uploaded_zip_file
        /\ Len(configs') >= Len(configs)
        /\ Len(configs') > Len(configs) => \E p \in DOMAIN run : PassesChecks(p)
        /\ \A cfg \in DOMAIN configs :
             /\ configs'[cfg].zip_configuration = configs[cfg].zip_configuration
             /\ configs'[cfg].user = configs[cfg].user
        /\ PkIsKey(store'.challenges) /\ PkIsKey(store'.leaderboards)
        /\ PkIsKey(store'.phases) /\ PkIsKey(store'.dataset_splits)
        /\ PkIsKey(store'.phase_splits)
        /\ \A cfg1, cfg2 \in DOMAIN configs' :
             ( /\ cfg1 # cfg2
               /\ configs'[cfg1].challenge # Null
               /\ configs'[cfg2].challenge # Null )
             => Distinct(store, cfg1, cfg2)'
      ]_vars

\* the same archive was imported twice with success, each import with its
\* own phase splits
C15_Witness ==
    /\ Len(configs) = 2
    /\ configs[1].zip_configuration = configs[2].zip_configuration
    /\ configs[1].challenge # Null
    /\ configs[2].challenge # Null
    /\ Owned(store, configs[1].challenge).phase_splits # {}
    /\ Owned(store, configs[2].challenge).phase_splits # {}

-----------------------------------------------------------------------------
(* C16 *)

\* no entry of the archive has a name that ends in .yaml or .yml
NoManifest(archive) ==
    \A i \in 1..Len(archive) :
        /\ ~EndsWith(archive[i].name, <<".", "y", "a", "m", "l">>)
        /\ ~EndsWith(archive[i].name, <<".", "y", "m", "l">>)

\* C16: an import that opened an archive without a .yaml or .yml entry loads
\* no manifest, never has a row, pending or committed, in any table, leaves
\* its ChallengeConfiguration unlinked, and returns the error result.
C16_ManifestMissingIsFatal ==
    \A p \in DOMAIN run :
        (run[p].zip_ref # NoZipFile /\ NoManifest(ArchiveTable[run[p].zip_ref])) =>
            LET cfg == run[p].uploaded_zip_file IN
            /\ ~Loaded(p)
            /\ run[p].challenge = Unbound
            /\ NoRows(run[p].txn, cfg)
            /\ NoRows(store, cfg)
            /\ configs[cfg].challenge = Null
            /\ Returned(p) => run[p].response_status = 400

\* an import of an archive without manifest failed although the manifest of
\* an earlier import was still on disk
C16_Witness ==
    \E p \in DOMAIN run :
        /\ Failed(p)
        /\ run[p].zip_ref # NoZipFile
        /\ NoManifest(ArchiveTable[run[p].zip_ref])
        /\ Len(ArchiveTable[run[p].zip_ref]) > 0
        /\ IsFile(tmp_files, ConfigYaml)

-----------------------------------------------------------------------------
(* C17 *)

\* the archive uploaded with configuration cfg has an entry at the path
InArchive(cfg, path) ==
    LET archive == ArchiveTable[configs[cfg].zip_configuration]
    IN  \E i \in 1..Len(archive) : archive[i].name = path

\* C17: every image, evaluation script and annotation file attached to a
\* committed Challenge or ChallengePhase is a file of the archive that the
\* import which created the row uploaded.
C17_NoAssetLeaksAcrossRuns ==
    \A cfg \in DOMAIN configs :
        /\ \A c \in RowsOf(store.challenges, cfg) :
             /\ c.image.uploaded => InArchive(cfg, c.image.name)
             /\ c.evaluation_script.uploaded => InArchive(cfg, c.evaluation_script.name)
        /\ \A ph \in RowsOf(store.phases, cfg) :
             ph.test_annotation.uploaded => InArchive(cfg, ph.test_annotation.content)

-----------------------------------------------------------------------------
(* C18 *)

\* the test_annotation_file that the entry of a phase row declares itself
OwnAnnotation(content, ph) ==
    Slice(content.challenge_phases, ph.key,
          ChallengePhaseChunk)[AnnotationIndex + 1]["test_annotation_file"]

\* C18: when the phase loop of an import has finished, every ChallengePhase
\* it created has an annotation upload if and only if the entry of that phase
\* declares a non-empty test_annotation_file and that file exists below the
\* extraction root.
C18_AnnotationDecidedByOwnEntry ==
    \A p \in DOMAIN run :
        run[p].pc = "dataset_splits" =>
            \A ph \in run[p].txn.phases :
                LET own == OwnAnnotation(Content(p), ph) IN
                ph.test_annotation.uploaded
                    <=> (Len(own) > 0 /\ IsFile(tmp_files, ZipChallengePath(own)))

-----------------------------------------------------------------------------
(* C19 *)

\* the file an asset path points at was found below the extraction root
Resolved(fs, path) == path # Unbound /\ IsFile(fs, path)

\* C19: the Challenge an import has just created has the image upload exactly
\* when the image file resolved, and the evaluation-script upload exactly when
\* the script file resolved, each regardless of the other.
C19_ImageAndScriptIndependent ==
    \A p \in DOMAIN run :
        run[p].pc = "leaderboards" =>
            \A c \in run[p].txn.challenges :
                /\ c.image.uploaded
                     <=> Resolved(tmp_files, ImagePath(Content(p).image))
                /\ c.evaluation_script.uploaded
                     <=> Resolved(tmp_files,
                                  EvaluationScriptPath(Content(p).evaluation_script))

-----------------------------------------------------------------------------
(* C20 *)

\* the table has a row with this primary key that the run of cfg created
CreatedBy(table, cfg, pk) == \E r \in RowsOf(table, cfg) : r.pk = pk

\* C20: in every state, every committed ChallengePhase is linked to the
\* Challenge that the import which created the phase created and bound to its
\* configuration, and every committed ChallengePhaseSplit references a
\* ChallengePhase, a Leaderboard and a DatasetSplit that the import which
\* created the phase split created.
C20_SameRunReferences ==
    /\ \A ph \in store.phases :
         LET cfg == ph.pk[1] IN
         /\ CreatedBy(store.challenges, cfg, ph.challenge)
         /\ configs[cfg].challenge = ph.challenge
    /\ \A s \in store.phase_splits :
         LET cfg == s.pk[1] IN
         /\ CreatedBy(store.phases, cfg, s.challenge_phase)
         /\ CreatedBy(store.leaderboards, cfg, s.leaderboard)
         /\ CreatedBy(store.dataset_splits, cfg, s.dataset_split)

\* a second import committed phase splits while the phases, leaderboards and
\* dataset splits of the first import were in the store
C20_Witness ==
    /\ RowsOf(store.phase_splits, 2) # {}
    /\ RowsOf(store.phases, 1) # {}
    /\ RowsOf(store.leaderboards, 1) # {}
    /\ RowsOf(store.dataset_splits, 1) # {}

-----------------------------------------------------------------------------
(* C21 *)

\* the positions of the entries of an archive whose name ends in .yaml or .yml
YamlEntries(archive) ==
    { i \in 1..Len(archive) :
        \/ EndsWith(archive[i].name, <<".", "y", "a", "m", "l">>)
        \/ EndsWith(archive[i].name, <<".", "y", "m", "l">>) }

\* C21: the manifest an import has loaded is the entry of the archive it
\* opened that comes last, in entry order, among the entries whose name ends
\* in .yaml or .yml (the only one when there is exactly one): the import has
\* its name in yaml_file and has loaded its content.
C21_ManifestSelection ==
    \A p \in DOMAIN run :
        Loaded(p) =>
            LET archive == ArchiveTable[run[p].zip_ref]
                yamls == YamlEntries(archive)
            IN  /\ yamls # {}
                /\ \E last \in yamls :
                     /\ \A i \in yamls : i <= last
                     /\ run[p].yaml_file = archive[last].name
                     /\ run[p].yaml_file_content = archive[last].content

\* an import of an archive with two manifests, the first of which is not the
\* one used, has succeeded
C21_Witness ==
    \E p \in DOMAIN run :
        /\ Succeeded(p)
        /\ LET archive == ArchiveTable[run[p].zip_ref] IN
           /\ Cardinality(YamlEntries(archive)) = 2
           /\ \E i \in YamlEntries(archive) :
                /\ archive[i].name # run[p].yaml_file
                /\ archive[i].content # run[p].yaml_file_content

-----------------------------------------------------------------------------
(* C22 *)

\* the step is one of request p and is not the commit of a successful import
StepWithoutCommit(p) ==
    /\ run'[p] # run[p]
    /\ ~(run[p].pc = "bind" /\ Succeeded(p)')

\* C22: no step of an import other than the commit of a successful one
\* changes a committed Challenge, Leaderboard, ChallengePhase, DatasetSplit or
\* ChallengePhaseSplit row or an existing ChallengeConfiguration row, link
\* included; the one change such a step may make to the database is to append
\* one ChallengeConfiguration row with a null challenge, and that row is
\* still there, unlinked, when the import has failed.
C22_FrameOfFailedImport ==
    [][ \A p \in DOMAIN run :
          /\ StepWithoutCommit(p) =>
                /\ store' = store
                /\ \A cfg \in DOMAIN configs :
                     cfg \in DOMAIN configs' /\ configs'[cfg] = configs[cfg]
                /\ \/ configs' = configs
                   \/ /\ Len(configs') = Len(configs) + 1
                      /\ run'[p].uploaded_zip_file = Len(configs')
                      /\ configs'[Len(configs')].challenge = Null
          /\ Failed(p)' =>
                /\ run'[p].uploaded_zip_file \in DOMAIN configs'
                /\ configs'[run'[p].uploaded_zip_file].challenge = Null
      ]_vars

\* the second import failed after it had saved rows, next to the committed
\* rows and the linked configuration of the first
C22_Witness ==
    \E p \in DOMAIN run :
        /\ Failed(p)
        /\ run[p].uploaded_zip_file = 2
        /\ run[p].dataset_split_ids # <<>>
        /\ configs[2].challenge = Null
        /\ configs[1].challenge # Null
        /\ RowsOf(store.phase_splits, 1) # {}
        /\ NoRows(store, 2)

-----------------------------------------------------------------------------
(* C23 *)

\* the users of a participant team
TeamUsers(participant_team_pk) ==
    { m.user : m \in { r \in Participants : r.team = participant_team_pk } }

\* the users of the host team that created the challenge
HostUsers(challenge_pk) ==
    { h.user : h \in { r \in ChallengeHosts :
                         \E c \in store.challenges :
                             c.pk = challenge_pk /\ c.creator = r.team_name } }

\* C23: a call of add_participant_team_to_challenge changes the membership
\* only by adding the pair of the call, with the answer 201, and only when the
\* challenge and the team exist, no user of the team is a user of the host
\* team of the challenge and no user of the team has participated in the
\* challenge; every other answer leaves the membership as it was, and a call
\* for a team that is in the challenge already changes nothing and is not
\* answered 201.
C23_MembershipChangesOnlyOnSuccess ==
    [][ LET c == join'.challenge_pk
            t == join'.participant_team_pk
        IN  /\ participant_teams' # participant_teams =>
                 /\ join'.status = 201
                 /\ <<c, t>> \notin participant_teams
                 /\ participant_teams' = participant_teams \cup {<<c, t>>}
                 /\ \E row \in store.challenges : row.pk = c
                 /\ t \in ParticipantTeams
                 /\ HostUsers(c) \cap TeamUsers(t) = {}
                 /\ \A user \in TeamUsers(t) :
                        ~has_user_participated_in_challenge(user, c)
            /\ join'.status # 201 => participant_teams' = participant_teams
            /\ <<c, t>> \in participant_teams =>
                 /\ participant_teams' = participant_teams
                 /\ join'.status # 201
      ]_vars

\* the call was repeated for a team that is in the challenge, next to another
\* challenge the team is in too, and was turned away
C23_Witness ==
    /\ <<join.challenge_pk, join.participant_team_pk>> \in participant_teams
    /\ join.status \in {200, 406}
    /\ TeamUsers(join.participant_team_pk) # {}
    /\ Cardinality(participant_teams) >= 3

====
